---- MODULE Spec2Model ----
(***************************************************************************)
(* Model of the long-polling update loop of tgapimanager:                  *)
(* BotAPI.GetUpdatesChan, BotAPI.StopReceivingUpdates, BotAPI.GetUpdates   *)
(* and the consumer of the UpdatesChannel.                                 *)
(*                                                                         *)
(* An Update is represented by its UpdateID; the payload plays no part in  *)
(* the loop.  Identifiers stay far below the width of Go's int, so         *)
(* UpdateID + 1 never wraps.                                               *)
(***************************************************************************)
EXTENDS Integers, Sequences, FiniteSets, TLC

\* ---------------------------------------------------------------- bounds
\* largest update identifier the remote API hands out
MaxId == 2
\* longest batch one fetch returns
MaxBatch == 2
\* the counter of consecutive failed fetches saturates here
MaxFails == 3

\* ------------------------------------------------------ program constants
\* Buffer: 100 in NewBotAPIWithClient
DefaultBuffer == 100
\* time.Sleep(time.Second * 3)
BackoffSeconds == 3

Ids == 0..MaxId

\* the values of bot.Buffer the caller may leave or set before polling: an
\* unbuffered channel, a channel of one, the default
Buffers == {0, 1, DefaultBuffer}

\* the values of config.Offset the caller may start a poller with
InitOffsets == {0, 1}

\* every sequence over S of length at most n
RECURSIVE SeqsUpTo(_, _)
SeqsUpTo(S, n) ==
  IF n = 0 THEN {<<>>}
  ELSE LET shorter == SeqsUpTo(S, n - 1)
       IN  shorter \cup {Append(s, x) : s \in {t \in shorter : Len(t) = n - 1}, x \in S}

Batches == SeqsUpTo(Ids, MaxBatch)

Range(s) == {s[i] : i \in 1..Len(s)}

Max(S) == CHOOSE x \in S : \A y \in S : y <= x

\* the history counters saturate
Sat(n, top) == IF n < top THEN n + 1 ELSE top

\* --------------------------------------------------------- request codec
\* a parameter that is not part of the request
Absent == -1

\* Params.AddNonZero: the field is sent only when it differs from zero
AddNonZero(value) == IF value # 0 THEN value ELSE Absent

\* as UpdateConfig_params, the offset left out of the request
UpdateConfig_paramsNoOffset(configOffset) == Absent

\* UpdateConfig.params: the offset field of the getUpdates request
UpdateConfig_params(configOffset) == AddNonZero(configOffset)

\* what the remote API reads from the offset field: an absent offset is 0
WireOffset(p) == IF p = Absent THEN 0 ELSE p

\* Params: the empty parameter set, and p[key] = value; the values are
\* strings, a number being written in decimal
NoParams == <<>>

Params_Set(p, key, value) ==
  [k \in DOMAIN p \cup {key} |-> IF k = key THEN value ELSE p[k]]

\* Params.AddNonZero on a parameter set
Params_AddNonZero(p, key, value) ==
  IF AddNonZero(value) = Absent THEN p ELSE Params_Set(p, key, ToString(value))

\* Params.AddNonZeroFloat: a float field is added only when it is not 0
Params_AddNonZeroFloat(p, key, value) ==
  IF value # 0 THEN Params_Set(p, key, ToString(value)) ELSE p

\* Params.AddNonEmpty: a string field is added only when it is not ""
Params_AddNonEmpty(p, key, value) ==
  IF value # "" THEN Params_Set(p, key, value) ELSE p

\* Params.AddBool: a flag is added only when it is set
Params_AddBool(p, key, value) ==
  IF value THEN Params_Set(p, key, "true") ELSE p

\* Params.AddFirstValid for (int64, string): the number when it is not 0,
\* else the string when it is not empty, else nothing
Params_AddFirstValid(p, key, number, name) ==
  IF number # 0 THEN Params_Set(p, key, ToString(number))
  ELSE IF name # "" THEN Params_Set(p, key, name)
  ELSE p

\* the values of a structured field: none, one that json.Marshal encodes, one
\* that json.Marshal refuses
Interfaces == {"nil", "json", "unserializable"}

\* the values of a field of type []string or []MessageEntity, which
\* json.Marshal always encodes
Slices == {"nil", "json"}

\* Params.AddInterface: the JSON text of a structured field, or the error of
\* json.Marshal
Params_AddInterface(p, key, value) ==
  CASE value = "nil" -> [params |-> p, err |-> "nil"]
    [] value = "json" -> [params |-> Params_Set(p, key, "json"), err |-> "nil"]
    [] OTHER -> [params |-> p, err |-> "json.Marshal"]

\* ------------------------------------------------------- configurations
\* RequestFileData: whether the file must be uploaded, whether the reader of
\* UploadData is an io.ReadCloser, and what SendData returns
FileDatas ==
  { [NeedsUpload |-> TRUE, Closer |-> TRUE, SendData |-> ""],
    [NeedsUpload |-> TRUE, Closer |-> FALSE, SendData |-> ""],
    [NeedsUpload |-> FALSE, Closer |-> FALSE, SendData |-> "file_id"] }

\* a nil RequestFileData
NilData == [NeedsUpload |-> FALSE, Closer |-> FALSE, SendData |-> "<nil>"]

BaseChats ==
  [ChatID : {0, 7}, ChannelUsername : {"", "@channel"},
   ReplyToMessageID : {0, 5}, ReplyMarkup : Interfaces,
   DisableNotification : {FALSE}, AllowSendingWithoutReply : {FALSE}]

MessageConfigs ==
  [kind : {"MessageConfig"}, BaseChat : BaseChats, Text : {"", "hi"},
   ParseMode : {""}, Entities : Slices, DisableWebPagePreview : {FALSE}]

UpdateConfigs ==
  [kind : {"UpdateConfig"}, Offset : {0, 1}, Limit : {0, 100},
   Timeout : {0, 60}, AllowedUpdates : Slices]

LocationConfigs ==
  [kind : {"LocationConfig"}, BaseChat : BaseChats, Latitude : {0, 1},
   Longitude : {0, 1}, HorizontalAccuracy : {0}, LivePeriod : {0, 60},
   Heading : {0}, ProximityAlertRadius : {0}]

VenueConfigs ==
  [kind : {"VenueConfig"}, BaseChat : BaseChats, Latitude : {0, 1},
   Longitude : {0, 1}, Title : {"", "title"}, Address : {"address"},
   FoursquareID : {""}, FoursquareType : {""}, GooglePlaceID : {""},
   GooglePlaceType : {""}]

WebhookConfigs ==
  [kind : {"WebhookConfig"}, URL : {"nil", "https://host/hook"},
   Certificate : FileDatas \cup {NilData}, IPAddress : {""},
   MaxConnections : {0, 40}, AllowedUpdates : Slices,
   DropPendingUpdates : BOOLEAN]

\* the Chattable values a call is made with
Configs ==
  MessageConfigs \cup UpdateConfigs \cup LocationConfigs \cup VenueConfigs
    \cup WebhookConfigs

\* BaseChat.params
BaseChat_params(chat) ==
  LET p1 == Params_AddFirstValid(NoParams, "chat_id", chat.ChatID,
                                 chat.ChannelUsername)
      p2 == Params_AddNonZero(p1, "reply_to_message_id", chat.ReplyToMessageID)
      p3 == Params_AddBool(p2, "disable_notification", chat.DisableNotification)
      p4 == Params_AddBool(p3, "allow_sending_without_reply",
                           chat.AllowSendingWithoutReply)
  IN  Params_AddInterface(p4, "reply_markup", chat.ReplyMarkup)

\* MessageConfig.params
MessageConfig_params(config) ==
  LET base == BaseChat_params(config.BaseChat)
      p1 == Params_AddNonEmpty(base.params, "text", config.Text)
      p2 == Params_AddBool(p1, "disable_web_page_preview",
                           config.DisableWebPagePreview)
      p3 == Params_AddNonEmpty(p2, "parse_mode", config.ParseMode)
  IN  IF base.err # "nil" THEN base
      ELSE Params_AddInterface(p3, "entities", config.Entities)

\* UpdateConfig.params, all its fields: the error of AddInterface is dropped
UpdateConfig_paramsAll(config) ==
  LET p1 == IF UpdateConfig_params(config.Offset) = Absent THEN NoParams
            ELSE Params_Set(NoParams, "offset",
                            ToString(UpdateConfig_params(config.Offset)))
      p2 == Params_AddNonZero(p1, "limit", config.Limit)
      p3 == Params_AddNonZero(p2, "timeout", config.Timeout)
      p4 == Params_AddInterface(p3, "allowed_updates", config.AllowedUpdates)
  IN  [params |-> p4.params, err |-> "nil"]

\* as LocationConfig_params, the error of BaseChat.params dropped
LocationConfig_paramsNoErr(config) ==
  [params |-> BaseChat_params(config.BaseChat).params, err |-> "nil"]

\* LocationConfig.params: the fields are added whatever BaseChat.params
\* returned, and its error is returned with them
LocationConfig_params(config) ==
  LET base == BaseChat_params(config.BaseChat)
      p1 == Params_AddNonZeroFloat(base.params, "latitude", config.Latitude)
      p2 == Params_AddNonZeroFloat(p1, "longitude", config.Longitude)
      p3 == Params_AddNonZeroFloat(p2, "horizontal_accuracy",
                                   config.HorizontalAccuracy)
      p4 == Params_AddNonZero(p3, "live_period", config.LivePeriod)
      p5 == Params_AddNonZero(p4, "heading", config.Heading)
      p6 == Params_AddNonZero(p5, "proximity_alert_radius",
                              config.ProximityAlertRadius)
  IN  [params |-> p6, err |-> base.err]

\* VenueConfig.params
VenueConfig_params(config) ==
  LET base == BaseChat_params(config.BaseChat)
      p1 == Params_AddNonZeroFloat(base.params, "latitude", config.Latitude)
      p2 == Params_AddNonZeroFloat(p1, "longitude", config.Longitude)
      p3 == Params_Set(p2, "title", config.Title)
      p4 == Params_Set(p3, "address", config.Address)
      p5 == Params_AddNonEmpty(p4, "foursquare_id", config.FoursquareID)
      p6 == Params_AddNonEmpty(p5, "foursquare_type", config.FoursquareType)
      p7 == Params_AddNonEmpty(p6, "google_place_id", config.GooglePlaceID)
      p8 == Params_AddNonEmpty(p7, "google_place_type", config.GooglePlaceType)
  IN  [params |-> p8, err |-> base.err]

\* WebhookConfig.params
WebhookConfig_params(config) ==
  LET p1 == IF config.URL # "nil" THEN Params_Set(NoParams, "url", config.URL)
            ELSE NoParams
      p2 == Params_AddNonEmpty(p1, "ip_address", config.IPAddress)
      p3 == Params_AddNonZero(p2, "max_connections", config.MaxConnections)
      r4 == Params_AddInterface(p3, "allowed_updates", config.AllowedUpdates)
      p5 == Params_AddBool(r4.params, "drop_pending_updates",
                           config.DropPendingUpdates)
  IN  [params |-> p5, err |-> r4.err]

\* WebhookConfig.files: the certificate, when there is one
WebhookConfig_files(config) ==
  IF config.Certificate # NilData
  THEN << [Name |-> "certificate", Data |-> config.Certificate] >>
  ELSE << >>

\* Chattable.params of each configuration type
params(c) ==
  CASE c.kind = "MessageConfig" -> MessageConfig_params(c)
    [] c.kind = "UpdateConfig" -> UpdateConfig_paramsAll(c)
    [] c.kind = "LocationConfig" -> LocationConfig_params(c)
    [] c.kind = "VenueConfig" -> VenueConfig_params(c)
    [] c.kind = "WebhookConfig" -> WebhookConfig_params(c)

\* Chattable.method of each configuration type
method(c) ==
  CASE c.kind = "MessageConfig" -> "sendMessage"
    [] c.kind = "UpdateConfig" -> "getUpdates"
    [] c.kind = "LocationConfig" -> "sendLocation"
    [] c.kind = "VenueConfig" -> "sendVenue"
    [] c.kind = "WebhookConfig" -> "setWebhook"

\* the type assertion c.(Fileable): WebhookConfig alone has a files method
IsFileable(c) == c.kind = "WebhookConfig"

\* Fileable.files
files(c) == WebhookConfig_files(c)

\* ------------------------------------------------------------ API calls
\* ResponseParameters, and its zero value
ZeroParameters == [MigrateToChatID |-> 0, RetryAfter |-> 0]

ResponseParametersValues ==
  { [MigrateToChatID |-> 0, RetryAfter |-> 5],
    [MigrateToChatID |-> -1001, RetryAfter |-> 0] }

\* APIResponse: Parameters is a pointer, here a sequence of length 0 or 1
OkResponse ==
  [Ok |-> TRUE, ErrorCode |-> 0, Description |-> "", Parameters |-> << >>]

ErrorResponses ==
  [Ok : {FALSE}, ErrorCode : {400, 429}, Description : {"Bad Request"},
   Parameters : {<< >>} \cup {<<rp>> : rp \in ResponseParametersValues}]

\* the zero APIResponse, which a failed decode leaves behind
ZeroResponse ==
  [Ok |-> FALSE, ErrorCode |-> 0, Description |-> "", Parameters |-> << >>]

\* the body of an HTTP response: JSON of an APIResponse, or something else
Bodies ==
  [decodes : {TRUE}, apiResp : {OkResponse} \cup ErrorResponses]
    \cup {[decodes |-> FALSE, apiResp |-> ZeroResponse]}

NoBody == [decodes |-> FALSE, apiResp |-> ZeroResponse]

\* the error a call returns: nil, the error of a library call, or *Error
NoErr ==
  [kind |-> "nil", Code |-> 0, Message |-> "",
   ResponseParameters |-> ZeroParameters, wrap |-> << >>]

LibErr(what) ==
  [kind |-> what, Code |-> 0, Message |-> "",
   ResponseParameters |-> ZeroParameters, wrap |-> << >>]

\* the *Error MakeRequest builds from an ok = false envelope
MakeRequest_Error(apiResp) ==
  [kind |-> "Error", Code |-> apiResp.ErrorCode,
   Message |-> apiResp.Description,
   ResponseParameters |-> IF apiResp.Parameters # << >>
                          THEN apiResp.Parameters[1] ELSE ZeroParameters,
   wrap |-> << >>]

\* the *Error UploadFiles builds from an ok = false envelope: Code is not set
UploadFiles_Error(apiResp) ==
  [kind |-> "Error", Code |-> 0,
   Message |-> apiResp.Description,
   ResponseParameters |-> IF apiResp.Parameters # << >>
                          THEN apiResp.Parameters[1] ELSE ZeroParameters,
   wrap |-> << >>]

\* wraperr.Wrap and wraperr.WrapIfError: msg is put in front of a non-nil error
Wrap(msg, e) == [e EXCEPT !.wrap = <<msg>> \o @]

WrapIfError(msg, e) == IF e.kind = "nil" THEN e ELSE Wrap(msg, e)

\* a configuration that stands for no configuration
NoCfg == [kind |-> "none"]

\* no call in progress
NoCall ==
  [pc |-> "idle", op |-> "none", cfg |-> NoCfg, path |-> "none",
   params |-> NoParams, files |-> << >>, http |-> 0, body |-> "none",
   resp |-> NoBody, ret |-> "none", err |-> NoErr, header |-> FALSE,
   wrote |-> << >>]

\* no upload goroutine
NoUpload ==
  [pc |-> "none", i |-> 0, todo |-> {}, out |-> << >>, readers |-> << >>,
   err |-> "nil"]

\* -------------------------------------------------------------- webhook
MaxCalls == 2

\* the inbound HTTP requests: the method, and a body that is the JSON of an
\* update or makes the decoder fail with an error of its own
RequestBodies ==
  [decodes : {TRUE}, id : Ids, err : {"nil"}]
    \cup [decodes : {FALSE}, id : {0}, err : {"unexpected EOF", "invalid character"}]

HTTPRequests == [Method : {"POST", "GET"}, Body : RequestBodies]

\* as HandleUpdate, the body decoded before the method is looked at
HandleUpdateDecodeFirst(r) ==
  IF ~r.Body.decodes
  THEN [update |-> << >>, err |-> r.Body.err, read |-> TRUE]
  ELSE IF r.Method # "POST"
  THEN [update |-> << >>, err |-> "wrong HTTP method required POST",
        read |-> TRUE]
  ELSE [update |-> <<r.Body.id>>, err |-> "nil", read |-> TRUE]

\* BotAPI.HandleUpdate: the update (a pointer, here a sequence of length 0 or
\* 1), the error, and whether r.Body was read
HandleUpdate(r) ==
  IF r.Method # "POST"
  THEN [update |-> << >>, err |-> "wrong HTTP method required POST",
        read |-> FALSE]
  ELSE IF ~r.Body.decodes
  THEN [update |-> << >>, err |-> r.Body.err, read |-> TRUE]
  ELSE [update |-> <<r.Body.id>>, err |-> "nil", read |-> TRUE]

\* the handler up to its send on the channel: on an error of HandleUpdate it
\* writes status 400 and the JSON of {"error": err.Error()} and returns
Handler(r) ==
  LET h == HandleUpdate(r)
  IN  IF h.err # "nil"
      THEN [req |-> r, h |-> h, pc |-> "done", status |-> 400,
            body |-> [error |-> h.err], put |-> 0]
      ELSE [req |-> r, h |-> h, pc |-> "send", status |-> 0,
            body |-> [error |-> ""], put |-> 0]

\* no webhook listener
NoWebhook ==
  [kind |-> "none", returned |-> FALSE, ch |-> << >>, cap |-> 0,
   closed |-> FALSE, calls |-> << >>, received |-> << >>]

\* ------------------------------------------------------------- transport
\* the outcomes of one HTTP round trip for getUpdates
\*   transport : bot.Client.Do returned an error
\*   decode    : the envelope did not decode
\*   notok     : a well-formed envelope with ok = false
\*   badresult : ok = true, the result is not a list of updates
\*   ok        : ok = true with a list of updates
RespKinds == {"transport", "decode", "notok", "badresult", "ok"}

\* BotAPI.MakeRequest: TRUE when it returns a non-nil error
MakeRequestFails(kind) == kind \in {"transport", "decode", "notok"}

\* BotAPI.GetUpdates: TRUE when it returns a non-nil error
GetUpdatesFails(kind) == MakeRequestFails(kind) \/ kind = "badresult"

\* ---------------------------------------------------------------- poller
\* as Emits, with > for >=
EmitsStrict(id, cursor) == id > cursor

\* the test of the delivery loop: update.UpdateID >= config.Offset
Emits(id, cursor) == id >= cursor

\* as NextOffset, without the + 1
NextOffsetSame(id) == id

\* config.Offset = update.UpdateID + 1
NextOffset(id) == id + 1

\* as Backoff, growing with the number of failures
BackoffGrowing(n) == BackoffSeconds * n

\* the sleep after the n-th consecutive failure
Backoff(n) == BackoffSeconds

VARIABLES
  Buffer,          \* bot.Buffer
  shutdownClosed,  \* bot.shutdownChannel has been closed
  panicked,        \* the process died of a runtime panic
  pc,              \* position of the poller goroutine
  offset,          \* config.Offset of the poller
  reqOffset,       \* offset field of the request in flight
  batch,           \* updates returned by the last successful fetch
  idx,             \* position of the range loop in batch
  ch,              \* buffered content of the output channel
  chCap,           \* capacity of the output channel
  chClosed,        \* the output channel has been closed
  lastErr,         \* err of the current iteration
  slept,           \* length of the sleep in progress, 0 when not sleeping
  \* history, read by the properties only
  startCursor,     \* config.Offset when the current batch arrived
  emitted,         \* identifiers sent on the channel by this poller
  received,        \* identifiers the consumer took from the channel
  maxSeen,         \* largest identifier of the batches processed to the end
  base,            \* Len(emitted) when the current batch arrived
  failRun,         \* consecutive failed fetches (saturating)
  afterFails,      \* MaxFails failed fetches came just before the current batch
  stopCalls,       \* calls of StopReceivingUpdates
  issued,          \* this poller has issued a fetch
  lateStart,       \* this poller was started after the shutdown signal
  afterStop,       \* what the poller did since the shutdown signal
  \* the calls made outside the poller
  call,            \* the call of Request, UploadFiles or WriteToHTTPResponse in progress
  up,              \* the goroutine of UploadFiles that writes the multipart body
  wh,              \* the webhook listener, its channel and its inbound calls
  clr,             \* the call of Clear on the output channel of the poller
  ps               \* the pollers of one BotAPI when GetUpdatesChan is called twice

vars == <<Buffer, shutdownClosed, panicked, pc, offset, reqOffset, batch, idx,
          ch, chCap, chClosed, lastErr, slept, startCursor, emitted, received,
          maxSeen, base, failRun, afterFails, stopCalls,
          issued, lateStart, afterStop, call, up, wh, clr, ps>>

botVars == <<Buffer, shutdownClosed, panicked, stopCalls>>
chanVars == <<ch, chCap, chClosed, emitted, received>>
batchVars == <<batch, idx, startCursor, base, afterFails>>
errVars == <<lastErr, slept>>
callVars == <<call, up, wh, clr, ps>>

\* the variables of the poller and of its channel
pollerVars ==
  <<shutdownClosed, panicked, pc, offset, reqOffset, batch, idx, ch, chCap,
    chClosed, lastErr, slept, startCursor, emitted, received, maxSeen, base,
    failRun, afterFails, stopCalls, issued, lateStart, afterStop,
    clr, ps>>

NoAfter == [fetched |-> 0, slept |-> 0]

\* the two calls of GetUpdatesChan on one BotAPI, by the name of the poller
\* each starts
Pollers == {"first", "second"}

\* the batches a fetch of one of them returns
PollerBatches == {<<>>, <<0>>, <<1>>, <<0, 1>>, <<1, 0>>}

\* a poller not started: its position, its config.Offset, the offset of its
\* request in flight, its batch and place in it, its channel
NoPoller ==
  [pc |-> "idle", offset |-> 0, req |-> Absent, batch |-> <<>>, idx |-> 1,
   ch |-> <<>>, closed |-> FALSE]

\* no call of Clear
NoClear == [pc |-> "none", dropped |-> 0]

\* NewBotAPIWithClient, followed by the caller's choice of bot.Buffer
Init ==
  /\ Buffer \in Buffers
  /\ shutdownClosed = FALSE
  /\ panicked = FALSE
  /\ pc = "idle"
  /\ offset = 0
  /\ reqOffset = Absent
  /\ batch = <<>>
  /\ idx = 1
  /\ ch = <<>>
  /\ chCap = 0
  /\ chClosed = FALSE
  /\ lastErr = "none"
  /\ slept = 0
  /\ startCursor = 0
  /\ emitted = <<>>
  /\ received = <<>>
  /\ maxSeen = -1
  /\ base = 0
  /\ failRun = 0
  /\ afterFails = FALSE
  /\ stopCalls = 0
  /\ issued = FALSE
  /\ lateStart = FALSE
  /\ afterStop = NoAfter
  /\ call = NoCall
  /\ up = NoUpload
  /\ wh = NoWebhook
  /\ clr = NoClear
  /\ ps = [p \in Pollers |-> NoPoller]

\* as GetUpdatesChan, making a fresh shutdown channel for the new poller
GetUpdatesChanReopen(configOffset) ==
  /\ ~panicked
  /\ pc \in {"idle", "stopped"}
  /\ pc' = "select"
  /\ shutdownClosed' = FALSE
  /\ offset' = configOffset
  /\ ch' = <<>>
  /\ chCap' = Buffer
  /\ chClosed' = FALSE
  /\ batch' = <<>>
  /\ idx' = 1
  /\ startCursor' = configOffset
  /\ emitted' = <<>>
  /\ received' = <<>>
  /\ maxSeen' = -1
  /\ base' = 0
  /\ failRun' = 0
  /\ afterFails' = FALSE
  /\ issued' = FALSE
  /\ lateStart' = shutdownClosed
  /\ afterStop' = NoAfter
  /\ UNCHANGED callVars
  /\ UNCHANGED <<errVars, Buffer, panicked, stopCalls, reqOffset>>

\* GetUpdatesChan(config): make the channel and start the goroutine.  It can
\* be called again once the previous poller has returned.
GetUpdatesChan(configOffset) ==
  /\ ~panicked
  /\ pc \in {"idle", "stopped"}
  /\ pc' = "select"
  /\ offset' = configOffset
  /\ ch' = <<>>
  /\ chCap' = Buffer
  /\ chClosed' = FALSE
  /\ batch' = <<>>
  /\ idx' = 1
  /\ startCursor' = configOffset
  /\ emitted' = <<>>
  /\ received' = <<>>
  /\ maxSeen' = -1
  /\ base' = 0
  /\ failRun' = 0
  /\ afterFails' = FALSE
  /\ issued' = FALSE
  /\ lateStart' = shutdownClosed
  /\ afterStop' = NoAfter
  /\ UNCHANGED callVars
  /\ UNCHANGED <<botVars, errVars, reqOffset>>

\* as SelectShutdown, the shutdown signal also looked at while a send is
\* pending
SelectShutdownInSend ==
  /\ ~panicked
  /\ pc \in {"select", "send"}
  /\ shutdownClosed
  /\ chClosed' = TRUE
  /\ pc' = "stopped"
  /\ UNCHANGED callVars
  /\ UNCHANGED <<botVars, batchVars, errVars, ch, chCap, emitted, received,
                 offset, reqOffset, maxSeen, failRun, issued, lateStart, afterStop>>

\* the select at the top of the loop, shutdown case: close(ch); return
SelectShutdown ==
  /\ ~panicked
  /\ pc = "select"
  /\ shutdownClosed
  /\ chClosed' = TRUE
  /\ pc' = "stopped"
  /\ UNCHANGED callVars
  /\ UNCHANGED <<botVars, batchVars, errVars, ch, chCap, emitted, received,
                 offset, reqOffset, maxSeen, failRun, issued, lateStart, afterStop>>

\* as SelectDefault, taken whether or not the shutdown channel is closed
SelectDefaultAnyway ==
  /\ ~panicked
  /\ pc = "select"
  /\ reqOffset' = UpdateConfig_params(offset)
  /\ issued' = TRUE
  /\ pc' = "fetch"
  /\ UNCHANGED callVars
  /\ UNCHANGED <<botVars, chanVars, batchVars, errVars, offset, maxSeen,
                 failRun, lateStart, afterStop>>

\* the select at the top of the loop, default case: call bot.GetUpdates(config)
SelectDefault ==
  /\ ~panicked
  /\ pc = "select"
  /\ ~shutdownClosed
  /\ reqOffset' = UpdateConfig_params(offset)
  /\ issued' = TRUE
  /\ pc' = "fetch"
  /\ UNCHANGED callVars
  /\ UNCHANGED <<botVars, chanVars, batchVars, errVars, offset, maxSeen,
                 failRun, lateStart, afterStop>>

\* as FetchFail, the cursor set back to 0 by the failure
FetchFailRewind(kind) ==
  /\ ~panicked
  /\ pc = "fetch"
  /\ GetUpdatesFails(kind)
  /\ lastErr' = kind
  /\ failRun' = Sat(failRun, MaxFails)
  /\ slept' = Backoff(failRun + 1)
  /\ pc' = "sleep"
  /\ offset' = 0
  /\ afterStop' = IF shutdownClosed
                  THEN [afterStop EXCEPT !.fetched = Sat(@, 2), !.slept = Sat(@, 2)]
                  ELSE afterStop
  /\ UNCHANGED callVars
  /\ UNCHANGED <<botVars, chanVars, batchVars, reqOffset, maxSeen, issued,
                 lateStart>>

\* bot.GetUpdates returns an error: log, sleep, continue
FetchFail(kind) ==
  /\ ~panicked
  /\ pc = "fetch"
  /\ GetUpdatesFails(kind)
  /\ lastErr' = kind
  /\ failRun' = Sat(failRun, MaxFails)
  /\ slept' = Backoff(failRun + 1)
  /\ pc' = "sleep"
  /\ afterStop' = IF shutdownClosed
                  THEN [afterStop EXCEPT !.fetched = Sat(@, 2), !.slept = Sat(@, 2)]
                  ELSE afterStop
  /\ UNCHANGED callVars
  /\ UNCHANGED <<botVars, chanVars, batchVars, offset, reqOffset, maxSeen,
                 issued, lateStart>>

\* as Wake, leaving the loop instead of continuing it
WakeReturn ==
  /\ ~panicked
  /\ pc = "sleep"
  /\ lastErr' = "none"
  /\ slept' = 0
  /\ pc' = "stopped"
  /\ UNCHANGED callVars
  /\ UNCHANGED <<botVars, chanVars, batchVars, offset, reqOffset, maxSeen,
                 failRun, issued, lateStart, afterStop>>

\* as Wake, retrying the fetch without passing the shutdown check
WakeToFetch ==
  /\ ~panicked
  /\ pc = "sleep"
  /\ lastErr' = "none"
  /\ slept' = 0
  /\ reqOffset' = UpdateConfig_params(offset)
  /\ issued' = TRUE
  /\ pc' = "fetch"
  /\ UNCHANGED callVars
  /\ UNCHANGED <<botVars, chanVars, batchVars, offset, maxSeen, failRun,
                 lateStart, afterStop>>

\* time.Sleep returns: continue with the next iteration
Wake ==
  /\ ~panicked
  /\ pc = "sleep"
  /\ lastErr' = "none"
  /\ slept' = 0
  /\ pc' = "select"
  /\ UNCHANGED callVars
  /\ UNCHANGED <<botVars, chanVars, batchVars, offset, reqOffset, maxSeen,
                 failRun, issued, lateStart, afterStop>>

\* bot.GetUpdates returns a batch: enter the range loop
FetchOk(updates) ==
  /\ ~panicked
  /\ pc = "fetch"
  /\ ~GetUpdatesFails("ok")
  /\ batch' = updates
  /\ idx' = 1
  /\ startCursor' = offset
  /\ base' = Len(emitted)
  /\ afterFails' = (failRun = MaxFails)
  /\ failRun' = 0
  /\ pc' = "range"
  /\ afterStop' = IF shutdownClosed
                  THEN [afterStop EXCEPT !.fetched = Sat(@, 2)]
                  ELSE afterStop
  /\ UNCHANGED callVars
  /\ UNCHANGED <<botVars, chanVars, errVars, offset, reqOffset, maxSeen,
                 issued, lateStart>>

\* range loop, an update below the cursor: skip it
RangeDrop ==
  /\ ~panicked
  /\ pc = "range"
  /\ idx <= Len(batch)
  /\ ~Emits(batch[idx], offset)
  /\ idx' = idx + 1
  /\ UNCHANGED callVars
  /\ UNCHANGED <<botVars, chanVars, errVars, pc, offset, reqOffset, batch,
                 startCursor, base, afterFails, maxSeen, failRun, issued,
                 lateStart, afterStop>>

\* range loop, an update at or above the cursor: advance the cursor, then
\* go on to the send
RangeAdvance ==
  /\ ~panicked
  /\ pc = "range"
  /\ idx <= Len(batch)
  /\ Emits(batch[idx], offset)
  /\ offset' = NextOffset(batch[idx])
  /\ pc' = "send"
  /\ UNCHANGED callVars
  /\ UNCHANGED <<botVars, chanVars, batchVars, errVars, reqOffset, maxSeen,
                 failRun, issued, lateStart, afterStop>>

\* as Send, dropping the update when the buffer is full
SendOrDrop ==
  /\ ~panicked
  /\ pc = "send"
  /\ ch' = IF Len(ch) < chCap THEN Append(ch, batch[idx]) ELSE ch
  /\ emitted' = Append(emitted, batch[idx])
  /\ idx' = idx + 1
  /\ pc' = "range"
  /\ UNCHANGED callVars
  /\ UNCHANGED <<botVars, errVars, chCap, chClosed, received, offset, reqOffset,
                 batch, startCursor, base, afterFails, maxSeen, failRun, issued,
                 lateStart, afterStop>>

\* ch <- update with room in the buffer
Send ==
  /\ ~panicked
  /\ pc = "send"
  /\ Len(ch) < chCap
  /\ ch' = Append(ch, batch[idx])
  /\ emitted' = Append(emitted, batch[idx])
  /\ idx' = idx + 1
  /\ pc' = "range"
  /\ UNCHANGED callVars
  /\ UNCHANGED <<botVars, errVars, chCap, chClosed, received, offset, reqOffset,
                 batch, startCursor, base, afterFails, maxSeen, failRun, issued,
                 lateStart, afterStop>>

\* as RangeDone, the range loop left as soon as the shutdown is signalled
RangeDoneOnShutdown ==
  /\ ~panicked
  /\ pc = "range"
  /\ idx > Len(batch) \/ shutdownClosed
  /\ maxSeen' = Max(Range(batch) \cup {maxSeen})
  /\ batch' = <<>>
  /\ idx' = 1
  /\ startCursor' = offset
  /\ base' = Len(emitted)
  /\ afterFails' = FALSE
  /\ pc' = "select"
  /\ UNCHANGED callVars
  /\ UNCHANGED <<botVars, chanVars, errVars, offset, reqOffset, failRun, issued,
                 lateStart, afterStop>>

\* as RangeDone, going on to the next fetch without the shutdown check
RangeDoneToFetch ==
  /\ ~panicked
  /\ pc = "range"
  /\ idx > Len(batch)
  /\ maxSeen' = Max(Range(batch) \cup {maxSeen})
  /\ batch' = <<>>
  /\ idx' = 1
  /\ startCursor' = offset
  /\ base' = Len(emitted)
  /\ afterFails' = FALSE
  /\ reqOffset' = UpdateConfig_params(offset)
  /\ pc' = "fetch"
  /\ UNCHANGED callVars
  /\ UNCHANGED <<botVars, chanVars, errVars, offset, failRun, issued,
                 lateStart, afterStop>>

\* range loop exhausted: back to the top of the for loop; updates is dead from
\* here on
RangeDone ==
  /\ ~panicked
  /\ pc = "range"
  /\ idx > Len(batch)
  /\ maxSeen' = Max(Range(batch) \cup {maxSeen})
  /\ batch' = <<>>
  /\ idx' = 1
  /\ startCursor' = offset
  /\ base' = Len(emitted)
  /\ afterFails' = FALSE
  /\ pc' = "select"
  /\ UNCHANGED callVars
  /\ UNCHANGED <<botVars, chanVars, errVars, offset, reqOffset, failRun, issued,
                 lateStart, afterStop>>

\* the consumer receives from the channel: a buffered update
Receive ==
  /\ ~panicked
  /\ Len(ch) > 0
  /\ received' = Append(received, Head(ch))
  /\ ch' = Tail(ch)
  /\ UNCHANGED callVars
  /\ UNCHANGED <<botVars, batchVars, errVars, chCap, chClosed, emitted, pc,
                 offset, reqOffset, maxSeen, failRun, issued, lateStart, afterStop>>

\* the consumer receives from the channel while the poller is blocked in its
\* send on an unbuffered channel: the update is handed over directly
Handoff ==
  /\ ~panicked
  /\ pc = "send"
  /\ chCap = 0
  /\ emitted' = Append(emitted, batch[idx])
  /\ received' = Append(received, batch[idx])
  /\ idx' = idx + 1
  /\ pc' = "range"
  /\ UNCHANGED callVars
  /\ UNCHANGED <<botVars, errVars, ch, chCap, chClosed, offset, reqOffset,
                 batch, startCursor, base, afterFails, maxSeen, failRun, issued,
                 lateStart, afterStop>>

\* as StopReceivingUpdates, doing nothing when the channel is closed already
StopReceivingUpdatesOnce ==
  /\ ~panicked
  /\ stopCalls' = Sat(stopCalls, 3)
  /\ shutdownClosed' = TRUE
  /\ UNCHANGED callVars
  /\ UNCHANGED <<chanVars, batchVars, errVars, Buffer, panicked, pc, offset,
                 reqOffset, maxSeen, failRun, issued, lateStart, afterStop>>

\* StopReceivingUpdates: close(bot.shutdownChannel); closing a closed channel
\* is a runtime panic
StopReceivingUpdates ==
  /\ ~panicked
  /\ stopCalls' = stopCalls + 1
  /\ IF shutdownClosed
     THEN /\ panicked' = TRUE
          /\ UNCHANGED shutdownClosed
     ELSE /\ shutdownClosed' = TRUE
          /\ UNCHANGED panicked
  /\ UNCHANGED callVars
  /\ UNCHANGED <<chanVars, batchVars, errVars, Buffer, pc, offset, reqOffset,
                 maxSeen, failRun, issued, lateStart, afterStop>>

Poller ==
  \/ SelectShutdown
  \/ SelectDefault
  \/ Wake
  \/ RangeDrop
  \/ RangeAdvance
  \/ Send
  \/ RangeDone

Transport ==
  \/ \E kind \in RespKinds : FetchFail(kind)
  \/ \E updates \in Batches : FetchOk(updates)

Consumer ==
  \/ Receive
  \/ Handoff

Next ==
  \/ \E configOffset \in InitOffsets : GetUpdatesChan(configOffset)
  \/ StopReceivingUpdates
  \/ SelectShutdown
  \/ SelectDefault
  \/ \E kind \in RespKinds : FetchFail(kind)
  \/ \E updates \in Batches : FetchOk(updates)
  \/ Wake
  \/ RangeDrop
  \/ RangeAdvance
  \/ Send
  \/ RangeDone
  \/ Receive
  \/ Handoff

Spec == Init /\ [][Next]_vars

\* the goroutine of the poller is scheduled, every fetch returns, and the
\* consumer keeps receiving from the channel
FairSpec ==
  Spec /\ WF_vars(Poller) /\ WF_vars(Transport) /\ WF_vars(Consumer)

\* ------------------------------------------------- Request and its calls
\* as hasFilesNeedingUpload, TRUE as soon as there is a file
hasFilesAtAll(fs) == fs # << >>

\* hasFilesNeedingUpload
hasFilesNeedingUpload(fs) == \E i \in 1..Len(fs) : fs[i].Data.NeedsUpload

\* the loop of Request over the files: params[file.Name] = SendData()
RECURSIVE SendDataFields(_, _)
SendDataFields(p, fs) ==
  IF fs = << >> THEN p
  ELSE SendDataFields(Params_Set(p, Head(fs).Name, Head(fs).Data.SendData),
                      Tail(fs))

\* the goroutine of UploadFiles as it starts
StartUpload(p, fs) ==
  [pc |-> "fields", i |-> 1, todo |-> DOMAIN p, out |-> << >>,
   readers |-> [j \in 1..Len(fs) |-> "none"], err |-> "nil"]

\* BotAPI.Request up to the call of MakeRequest or UploadFiles, called by the
\* user of the library (who = "Request") or by Send or GetUpdates
RequestAs(who, c) ==
  /\ call.pc = "idle"
  /\ LET r == params(c)
         upload == IsFileable(c) /\ hasFilesNeedingUpload(files(c))
     IN  IF r.err # "nil"
         THEN /\ call' = [NoCall EXCEPT !.pc = "returned", !.op = who,
                                        !.cfg = c, !.params = r.params,
                                        !.ret = "nil", !.err = LibErr(r.err)]
              /\ UNCHANGED up
         ELSE IF upload
         THEN /\ call' = [NoCall EXCEPT !.pc = "request", !.op = who,
                                        !.cfg = c, !.path = "UploadFiles",
                                        !.params = r.params,
                                        !.files = files(c)]
              /\ up' = StartUpload(r.params, files(c))
         ELSE /\ call' = [NoCall EXCEPT !.pc = "request", !.op = who,
                                        !.cfg = c, !.path = "MakeRequest",
                                        !.params =
                                          IF IsFileable(c)
                                          THEN SendDataFields(r.params, files(c))
                                          ELSE r.params]
              /\ UNCHANGED up
  /\ UNCHANGED <<pollerVars, Buffer, wh>>

\* BotAPI.Request called by the user of the library
Request(c) == RequestAs("Request", c)

\* BotAPI.Send up to the return of bot.Request(c)
BotAPI_Send(c) == RequestAs("Send", c)

\* BotAPI.GetUpdates up to the return of bot.Request(config)
BotAPI_GetUpdates(config) == RequestAs("GetUpdates", config)

\* Client.doRequest up to the call of http.NewRequest
Client_doRequest(m) ==
  /\ call.pc = "idle"
  /\ call' = [NoCall EXCEPT !.pc = "request", !.op = m, !.path = "doRequest"]
  /\ UNCHANGED <<pollerVars, Buffer, wh, up>>

\* what the deferred function of Client.doRequest makes of the error, the
\* functions of BotAPI returning it as it is
Deferred(path, e) ==
  IF path = "doRequest" THEN WrapIfError("can't do a request", e) ELSE e

\* http.NewRequest fails: MakeRequest returns an empty APIResponse with the
\* error, UploadFiles returns nil with it
NewRequestFails ==
  /\ call.pc = "request"
  /\ call' = [call EXCEPT !.pc = "returned",
                          !.ret = IF call.path = "MakeRequest" THEN "empty"
                                  ELSE "nil",
                          !.err = Deferred(call.path, LibErr("http.NewRequest"))]
  /\ UNCHANGED <<pollerVars, Buffer, wh, up>>

\* http.NewRequest returns a request; bot.Client.Do is called with it and
\* begins to read its body
NewRequestOk ==
  /\ call.pc = "request"
  /\ call' = [call EXCEPT !.pc = "do"]
  /\ UNCHANGED <<pollerVars, Buffer, wh, up>>

\* as DoFails, the request issued a second time after a first failure
DoFailsRetry ==
  /\ call.pc = "do"
  /\ call' = IF call.http = 0
             THEN [call EXCEPT !.http = @ + 1]
             ELSE [call EXCEPT !.pc = "returned", !.http = @ + 1,
                               !.ret = "nil",
                               !.err = Deferred(call.path, LibErr("Client.Do"))]
  /\ UNCHANGED <<pollerVars, Buffer, wh, up>>

\* bot.Client.Do returns an error and no response
DoFails ==
  /\ call.pc = "do"
  /\ call' = [call EXCEPT !.pc = "returned", !.http = @ + 1, !.ret = "nil",
                          !.err = Deferred(call.path, LibErr("Client.Do"))]
  /\ UNCHANGED <<pollerVars, Buffer, wh, up>>

\* bot.Client.Do returns a response: its body is open, its Close deferred
DoResponds(body) ==
  /\ call.pc = "do"
  /\ call' = [call EXCEPT !.pc = "decode", !.http = @ + 1, !.body = "open",
                          !.resp = body]
  /\ UNCHANGED <<pollerVars, Buffer, wh, up>>

\* as Decode, the body closed at the end of the function and not deferred
DecodeCloseAtEnd ==
  /\ call.pc = "decode"
  /\ call.path # "doRequest"
  /\ call' =
       [call EXCEPT
          !.pc = "returned",
          !.ret = "apiResp",
          !.body = IF call.resp.decodes /\ call.resp.apiResp.Ok THEN "closed"
                   ELSE "open",
          !.err = IF ~call.resp.decodes THEN LibErr("decode")
                  ELSE IF call.resp.apiResp.Ok THEN NoErr
                  ELSE IF call.path = "MakeRequest"
                  THEN MakeRequest_Error(call.resp.apiResp)
                  ELSE UploadFiles_Error(call.resp.apiResp)]
  /\ UNCHANGED <<pollerVars, Buffer, wh, up>>

\* the rest of MakeRequest and of UploadFiles: decodeAPIResponse, the test of
\* apiResp.Ok, and the deferred resp.Body.Close() as the function returns
Decode ==
  /\ call.pc = "decode"
  /\ call.path # "doRequest"
  /\ call' =
       [call EXCEPT
          !.pc = "returned",
          !.ret = "apiResp",
          !.body = "closed",
          !.err = IF ~call.resp.decodes THEN LibErr("decode")
                  ELSE IF call.resp.apiResp.Ok THEN NoErr
                  ELSE IF call.path = "MakeRequest"
                  THEN MakeRequest_Error(call.resp.apiResp)
                  ELSE UploadFiles_Error(call.resp.apiResp)]
  /\ UNCHANGED <<pollerVars, Buffer, wh, up>>

\* the rest of Client.doRequest: io.ReadAll(resp.Body), and the deferred
\* resp.Body.Close() as the function returns
ReadAll(ok) ==
  /\ call.pc = "decode"
  /\ call.path = "doRequest"
  /\ call' = [call EXCEPT
                !.pc = "returned",
                !.body = "closed",
                !.ret = IF ok THEN "body" ELSE "nil",
                !.err = IF ok THEN NoErr
                        ELSE Deferred(call.path, LibErr("io.ReadAll"))]
  /\ UNCHANGED <<pollerVars, Buffer, wh, up>>

\* the rest of Send and of GetUpdates: the error of Request is returned as
\* it is; without one resp.Result is unmarshalled, and the error of
\* json.Unmarshal is returned as it is
Unmarshal(ok) ==
  /\ call.pc = "returned"
  /\ call.op \in {"Send", "GetUpdates"}
  /\ call' = [call EXCEPT
                !.pc = "finished",
                !.ret = IF call.err.kind # "nil" THEN "zero" ELSE "result",
                !.err = IF call.err.kind # "nil" THEN call.err
                        ELSE IF ok THEN NoErr ELSE LibErr("json.Unmarshal")]
  /\ UNCHANGED <<pollerVars, Buffer, wh, up>>

\* as Client_SendMessage, the error of doRequest returned as it is
Client_SendMessageBare ==
  /\ call.pc = "returned"
  /\ call.op = "sendMessage"
  /\ call' = [call EXCEPT !.pc = "finished"]
  /\ UNCHANGED <<pollerVars, Buffer, wh, up>>

\* the rest of Client.SendMessage: the error of doRequest is wrapped once
\* more
Client_SendMessage ==
  /\ call.pc = "returned"
  /\ call.op = "sendMessage"
  /\ call' = [call EXCEPT
                !.pc = "finished",
                !.err = IF call.err.kind # "nil"
                        THEN Wrap("can't send a message", call.err)
                        ELSE NoErr]
  /\ UNCHANGED <<pollerVars, Buffer, wh, up>>

\* the rest of Client.Updates: the error of doRequest and the error of
\* json.Unmarshal are returned as they are
Client_Updates(ok) ==
  /\ call.pc = "returned"
  /\ call.op = "getUpdates"
  /\ call' = [call EXCEPT
                !.pc = "finished",
                !.ret = IF call.err.kind = "nil" /\ ok THEN "result" ELSE "nil",
                !.err = IF call.err.kind # "nil" THEN call.err
                        ELSE IF ok THEN NoErr ELSE LibErr("json.Unmarshal")]
  /\ UNCHANGED <<pollerVars, Buffer, wh, up>>

\* ------------------------------------------- the goroutine of UploadFiles
MaxFiles == 2

\* the files and parameters UploadFiles is called with directly: the file
\* at position i is called FileNames[i]
FileNames == <<"photo", "thumb", "document", "media">>

FileLists ==
  { [i \in 1..Len(ds) |-> [Name |-> FileNames[i], Data |-> ds[i]]] :
      ds \in SeqsUpTo(FileDatas, MaxFiles) }

UploadParams ==
  { NoParams,
    Params_Set(NoParams, "chat_id", "7"),
    Params_Set(Params_Set(NoParams, "chat_id", "7"), "caption", "text") }

\* BotAPI.UploadFiles called by the user of the library
UploadFiles(p, fs) ==
  /\ call.pc = "idle"
  /\ call' = [NoCall EXCEPT !.pc = "request", !.op = "UploadFiles",
                            !.path = "UploadFiles", !.params = p, !.files = fs]
  /\ up' = StartUpload(p, fs)
  /\ UNCHANGED <<pollerVars, Buffer, wh>>

\* the pipe between the goroutine and the body of the HTTP request: nobody
\* reads it before bot.Client.Do is called, Do reads it while it runs, and
\* the body is closed when Do has returned
Pipe ==
  IF call.path # "UploadFiles" THEN "none"
  ELSE IF call.pc = "do" THEN "reading"
  ELSE IF call.http >= 1 THEN "closed"
  ELSE "unread"

\* a write on the pipe that succeeds (ok) or fails: it blocks while nobody
\* reads, and fails once the reading end is closed
PipeWrite(ok) ==
  CASE Pipe = "reading" -> TRUE
    [] Pipe = "closed" -> ~ok
    [] OTHER -> FALSE

\* the goroutine returns on an error: w.CloseWithError(err), then the
\* deferred m.Close() and w.Close()
UploadFailed(what) == [up EXCEPT !.pc = "done", !.err = what]

\* one turn of the loop over params: m.WriteField(field, value), in the
\* order the map is ranged over
WriteParam(field, ok) ==
  /\ up.pc = "fields"
  /\ field \in up.todo
  /\ PipeWrite(ok)
  /\ up' = IF ok
           THEN [up EXCEPT !.todo = @ \ {field},
                           !.out = Append(@, [part |-> "field", name |-> field])]
           ELSE UploadFailed("WriteField")
  /\ UNCHANGED <<pollerVars, Buffer, wh, call>>

\* the head of the loop over files: UploadData for a file that needs upload,
\* m.WriteField(file.Name, SendData()) for one that does not
FileStep(ok) ==
  /\ up.pc = "fields"
  /\ up.todo = {}
  /\ up.i <= Len(call.files)
  /\ call.files[up.i].Data.NeedsUpload \/ PipeWrite(ok)
  /\ LET file == call.files[up.i]
     IN  up' = IF file.Data.NeedsUpload
               THEN IF ok
                    THEN [up EXCEPT !.pc = "create", !.readers[up.i] = "open"]
                    ELSE UploadFailed("UploadData")
               ELSE IF ok
                    THEN [up EXCEPT !.i = @ + 1,
                                    !.out = Append(@, [part |-> "field",
                                                       name |-> file.Name])]
                    ELSE UploadFailed("WriteField")
  /\ UNCHANGED <<pollerVars, Buffer, wh, call>>

\* m.CreateFormFile(file.Name, name) starts the part of the attachment
CreateFormFile(ok) ==
  /\ up.pc = "create"
  /\ PipeWrite(ok)
  /\ up' = IF ok
           THEN [up EXCEPT !.pc = "copy",
                           !.out = Append(@, [part |-> "file",
                                              name |-> call.files[up.i].Name])]
           ELSE UploadFailed("CreateFormFile")
  /\ UNCHANGED <<pollerVars, Buffer, wh, call>>

\* io.Copy(part, reader): on an error the goroutine returns at once, the
\* reader left as it is
Copy(ok) ==
  /\ up.pc = "copy"
  /\ ok => Pipe = "reading"
  /\ up' = IF ok
           THEN IF call.files[up.i].Data.Closer
                THEN [up EXCEPT !.pc = "close", !.readers[up.i] = "copied"]
                ELSE [up EXCEPT !.pc = "fields", !.i = @ + 1,
                                !.readers[up.i] = "copied"]
           ELSE [UploadFailed("io.Copy") EXCEPT !.readers[up.i] = "copy failed"]
  /\ UNCHANGED <<pollerVars, Buffer, wh, call>>

\* closer.Close() for a reader that is an io.ReadCloser
CloseReader(ok) ==
  /\ up.pc = "close"
  /\ up' = IF ok
           THEN [up EXCEPT !.pc = "fields", !.i = @ + 1,
                           !.readers[up.i] = "closed"]
           ELSE [UploadFailed("Close") EXCEPT !.readers[up.i] = "closed"]
  /\ UNCHANGED <<pollerVars, Buffer, wh, call>>

\* both loops are over: the deferred m.Close(), which writes the closing
\* boundary on the pipe, and w.Close()
UploadDone ==
  /\ up.pc = "fields"
  /\ up.todo = {}
  /\ up.i > Len(call.files)
  /\ Pipe # "unread"
  /\ up' = [up EXCEPT !.pc = "done"]
  /\ UNCHANGED <<pollerVars, Buffer, wh, call>>

\* as WriteToHTTPResponse, the header set before the files are looked at
WriteToHTTPResponseHeaderFirst(c, ok) ==
  /\ call.pc = "idle"
  /\ LET r == params(c)
         done == [NoCall EXCEPT !.pc = "returned", !.cfg = c,
                                !.op = "WriteToHTTPResponse",
                                !.params = r.params]
     IN  call' =
           IF r.err # "nil"
           THEN [done EXCEPT !.err = LibErr(r.err)]
           ELSE IF IsFileable(c) /\ hasFilesNeedingUpload(files(c))
           THEN [done EXCEPT
                   !.header = TRUE,
                   !.err = LibErr("unable to use http response to upload files")]
           ELSE [done EXCEPT
                   !.header = TRUE,
                   !.wrote = IF ok
                             THEN <<Params_Set(r.params, "method", method(c))>>
                             ELSE << >>,
                   !.err = IF ok THEN NoErr ELSE LibErr("Write")]
  /\ UNCHANGED <<pollerVars, Buffer, wh, up>>

\* WriteToHTTPResponse: ok says whether w.Write succeeds
WriteToHTTPResponse(c, ok) ==
  /\ call.pc = "idle"
  /\ LET r == params(c)
         done == [NoCall EXCEPT !.pc = "returned", !.cfg = c,
                                !.op = "WriteToHTTPResponse",
                                !.params = r.params]
     IN  call' =
           IF r.err # "nil"
           THEN [done EXCEPT !.err = LibErr(r.err)]
           ELSE IF IsFileable(c) /\ hasFilesNeedingUpload(files(c))
           THEN [done EXCEPT
                   !.err = LibErr("unable to use http response to upload files")]
           ELSE [done EXCEPT
                   !.header = TRUE,
                   !.wrote = IF ok
                             THEN <<Params_Set(r.params, "method", method(c))>>
                             ELSE << >>,
                   !.err = IF ok THEN NoErr ELSE LibErr("Write")]
  /\ UNCHANGED <<pollerVars, Buffer, wh, up>>

\* the calls made by the user of the library, one at a time
Caller ==
  /\ call.pc = "idle"
  /\ \/ \E c \in Configs : Request(c)
     \/ \E p \in UploadParams, fs \in FileLists : UploadFiles(p, fs)
     \/ \E c \in Configs, ok \in BOOLEAN : WriteToHTTPResponse(c, ok)
     \/ \E m \in {"getUpdates", "sendMessage"} : Client_doRequest(m)
     \/ \E c \in Configs : BotAPI_Send(c)
     \/ \E config \in UpdateConfigs : BotAPI_GetUpdates(config)

\* the HTTP client and the remote API
Remote ==
  \/ NewRequestFails
  \/ NewRequestOk
  \/ DoFails
  \/ \E body \in Bodies : DoResponds(body)
  \/ Decode
  \/ \E ok \in BOOLEAN : ReadAll(ok)

\* the functions that called Request or doRequest go on after its return
Outer ==
  \/ \E ok \in BOOLEAN : Unmarshal(ok)
  \/ Client_SendMessage
  \/ \E ok \in BOOLEAN : Client_Updates(ok)

\* the goroutine that writes the multipart body
Uploader ==
  \/ \E field \in up.todo, ok \in BOOLEAN : WriteParam(field, ok)
  \/ \E ok \in BOOLEAN : FileStep(ok)
  \/ \E ok \in BOOLEAN : CreateFormFile(ok)
  \/ \E ok \in BOOLEAN : Copy(ok)
  \/ \E ok \in BOOLEAN : CloseReader(ok)
  \/ UploadDone

CallNext == Caller \/ Remote \/ Outer \/ Uploader

\* the request side on its own: the poller is not started, bot.Buffer is
\* left at its default
CallInit == Init /\ Buffer = DefaultBuffer

CallSpec == CallInit /\ [][CallNext]_vars

\* where the call and the goroutine are: every step of either changes it
callAt == <<call.pc, call.http, up.pc, up.i, up.todo>>

\* every call of the library and of the HTTP client returns, and the
\* goroutine of UploadFiles is scheduled
CallFairSpec ==
  CallSpec /\ WF_callAt(Remote) /\ WF_callAt(Outer) /\ WF_callAt(Uploader)

\* ------------------------------------------------- the webhook listeners
\* BotAPI.ListenForWebhook: the channel is made and returned, the handler
\* registered
ListenForWebhook ==
  /\ wh.kind = "none"
  /\ wh' = [NoWebhook EXCEPT !.kind = "ListenForWebhook", !.cap = Buffer,
                             !.returned = TRUE]
  /\ UNCHANGED <<pollerVars, Buffer, call, up>>

\* the HTTP server runs the registered handler on an inbound request, in a
\* goroutine of its own
Inbound(r) ==
  /\ wh.kind = "ListenForWebhook"
  /\ Len(wh.calls) < MaxCalls
  /\ wh' = [wh EXCEPT !.calls = Append(@, Handler(r))]
  /\ UNCHANGED <<pollerVars, Buffer, call, up>>

\* BotAPI.ListenForWebhookRespReqFormat: the channel is made and the handler
\* run in place; the channel is closed and returned when the handler is over
ListenForWebhookRespReqFormat(r) ==
  /\ wh.kind = "none"
  /\ LET c == Handler(r)
     IN  wh' = [NoWebhook EXCEPT !.kind = "ListenForWebhookRespReqFormat",
                                 !.cap = Buffer,
                                 !.calls = <<c>>,
                                 !.closed = (c.pc = "done"),
                                 !.returned = (c.pc = "done")]
  /\ UNCHANGED <<pollerVars, Buffer, call, up>>

\* what the end of the handler brings: in ListenForWebhookRespReqFormat the
\* deferred close(ch) and the return of the channel
HandlerOver(w) ==
  IF w.kind = "ListenForWebhookRespReqFormat"
  THEN [w EXCEPT !.closed = TRUE, !.returned = TRUE]
  ELSE w

\* ch <- *update with room in the buffer of the channel
HandlerSend(k) ==
  /\ k \in 1..Len(wh.calls)
  /\ wh.calls[k].pc = "send"
  /\ Len(wh.ch) < wh.cap
  /\ wh' = HandlerOver([wh EXCEPT !.ch = Append(@, wh.calls[k].h.update[1]),
                                  !.calls[k].pc = "done",
                                  !.calls[k].put = @ + 1])
  /\ UNCHANGED <<pollerVars, Buffer, call, up>>

\* ch <- *update on a channel without buffer: the send meets a receive of
\* the consumer, who must hold the channel
HandlerHandoff(k) ==
  /\ k \in 1..Len(wh.calls)
  /\ wh.calls[k].pc = "send"
  /\ wh.cap = 0
  /\ wh.returned
  /\ wh' = HandlerOver([wh EXCEPT !.received = Append(@, wh.calls[k].h.update[1]),
                                  !.calls[k].pc = "done",
                                  !.calls[k].put = @ + 1])
  /\ UNCHANGED <<pollerVars, Buffer, call, up>>

\* the consumer receives from the channel it was given
WebhookReceive ==
  /\ wh.returned
  /\ Len(wh.ch) > 0
  /\ wh' = [wh EXCEPT !.ch = Tail(@), !.received = Append(@, Head(wh.ch))]
  /\ UNCHANGED <<pollerVars, Buffer, call, up>>

\* the goroutines of the handlers
Handlers == \E k \in 1..MaxCalls : HandlerSend(k)

\* the consumer of the webhook channel
WebhookConsumer ==
  \/ WebhookReceive
  \/ \E k \in 1..MaxCalls : HandlerHandoff(k)

WebhookNext ==
  \/ ListenForWebhook
  \/ \E r \in HTTPRequests : Inbound(r)
  \/ \E r \in HTTPRequests : ListenForWebhookRespReqFormat(r)
  \/ \E k \in 1..MaxCalls : HandlerSend(k)
  \/ \E k \in 1..MaxCalls : HandlerHandoff(k)
  \/ WebhookReceive

\* the webhook side on its own, the poller not started
WebhookSpec == Init /\ [][WebhookNext]_vars

\* the handlers are scheduled and the consumer keeps receiving
WebhookFairSpec ==
  WebhookSpec /\ WF_vars(Handlers) /\ WF_vars(WebhookConsumer)

\* ------------------------------------------------- UpdatesChannel.Clear
\* what a step of Clear leaves alone: everything but the buffer of the
\* channel and its own position
clearFrame ==
  <<botVars, batchVars, errVars, call, up, wh, ps, pc, offset, reqOffset, chCap,
    chClosed, emitted, received, maxSeen, failRun, issued, lateStart,
    afterStop>>

\* the consumer calls Clear on the channel GetUpdatesChan gave it
Clear ==
  /\ clr.pc = "none"
  /\ pc # "idle"
  /\ clr' = [clr EXCEPT !.pc = "len"]
  /\ UNCHANGED <<clearFrame, ch>>

\* the test of the loop: len(ch) != 0, the number of updates in the buffer
ClearLen ==
  /\ clr.pc = "len"
  /\ clr' = [clr EXCEPT !.pc = IF Len(ch) # 0 THEN "recv" ELSE "exit"]
  /\ UNCHANGED <<clearFrame, ch>>

\* the body of the loop: <-ch, the received update thrown away
ClearReceive ==
  /\ clr.pc = "recv"
  /\ Len(ch) > 0
  /\ ch' = Tail(ch)
  /\ clr' = [clr EXCEPT !.pc = "len", !.dropped = @ + 1]
  /\ UNCHANGED clearFrame

\* Clear returns to its caller
ClearReturn ==
  /\ clr.pc = "exit"
  /\ clr' = [clr EXCEPT !.pc = "returned"]
  /\ UNCHANGED <<clearFrame, ch>>

\* the steps of Clear once called
Clearing ==
  \/ ClearLen
  \/ ClearReceive
  \/ ClearReturn

\* one poller with a consumer that does nothing but call Clear: every
\* fetch succeeds
ClearNext ==
  \/ \E configOffset \in InitOffsets : pc = "idle" /\ GetUpdatesChan(configOffset)
  \/ StopReceivingUpdates
  \/ SelectShutdown
  \/ SelectDefault
  \/ \E updates \in Batches : FetchOk(updates)
  \/ RangeDrop
  \/ RangeAdvance
  \/ Send
  \/ RangeDone
  \/ Clear
  \/ Clearing

\* the channel is buffered or not; the default buffer never fills here
ClearInit == Init /\ Buffer \in {0, 1}

ClearSpec == ClearInit /\ [][ClearNext]_vars

\* the poller and Clear are scheduled and every fetch returns
ClearFairSpec ==
  ClearSpec /\ WF_vars(Poller) /\ WF_vars(Transport) /\ WF_vars(Clearing)

\* --------------------------------------------- two pollers on one BotAPI
\* what a step of one of the two pollers leaves alone: everything but ps
pollersFrame ==
  <<Buffer, shutdownClosed, panicked, pc, offset, reqOffset, batch, idx, ch,
    chCap, chClosed, lastErr, slept, startCursor, emitted, received, maxSeen,
    base, failRun, afterFails, stopCalls, issued, lateStart, afterStop, call,
    up, wh, clr>>

\* GetUpdatesChan(config) called for poller p: its channel is made, its
\* goroutine started with its own copy of config
PollerStart(p, configOffset) ==
  /\ ~panicked
  /\ ps[p].pc = "idle"
  /\ ps' = [ps EXCEPT ![p] = [NoPoller EXCEPT !.pc = "select",
                                             !.offset = configOffset]]
  /\ UNCHANGED pollersFrame

\* the select at the top of the loop of p: close(ch) and return when
\* bot.shutdownChannel is closed, else bot.GetUpdates(config)
PollerSelect(p) ==
  /\ ~panicked
  /\ ps[p].pc = "select"
  /\ ps' = IF shutdownClosed
           THEN [ps EXCEPT ![p].pc = "stopped", ![p].closed = TRUE]
           ELSE [ps EXCEPT ![p].pc = "fetch",
                           ![p].req = UpdateConfig_params(ps[p].offset)]
  /\ UNCHANGED pollersFrame

\* the fetch of p fails: log, sleep, continue; the step ends when the sleep
\* is over
PollerFetchFail(p) ==
  /\ ~panicked
  /\ ps[p].pc = "fetch"
  /\ ps' = [ps EXCEPT ![p].pc = "select"]
  /\ UNCHANGED pollersFrame

\* the fetch of p returns a batch
PollerFetchOk(p, updates) ==
  /\ ~panicked
  /\ ps[p].pc = "fetch"
  /\ ps' = [ps EXCEPT ![p].pc = "range", ![p].batch = updates, ![p].idx = 1]
  /\ UNCHANGED pollersFrame

\* as PollerRange, config shared by the pollers: the cursor of every poller
\* advanced
PollerRangeShared(p) ==
  /\ ~panicked
  /\ ps[p].pc = "range"
  /\ LET me == ps[p]
     IN  ps' = IF me.idx > Len(me.batch)
               THEN [ps EXCEPT ![p].pc = "select", ![p].batch = <<>>,
                               ![p].idx = 1]
               ELSE IF Emits(me.batch[me.idx], me.offset)
               THEN [q \in Pollers |->
                       IF q = p
                       THEN [me EXCEPT !.pc = "send",
                                       !.offset = NextOffset(me.batch[me.idx])]
                       ELSE [ps[q] EXCEPT
                               !.offset = NextOffset(me.batch[me.idx])]]
               ELSE [ps EXCEPT ![p].idx = @ + 1]
  /\ UNCHANGED pollersFrame

\* one turn of the range loop of p: the loop is over, or the update is at
\* or above config.Offset and the cursor advances before the send, or the
\* update is skipped
PollerRange(p) ==
  /\ ~panicked
  /\ ps[p].pc = "range"
  /\ LET me == ps[p]
     IN  ps' = IF me.idx > Len(me.batch)
               THEN [ps EXCEPT ![p].pc = "select", ![p].batch = <<>>,
                               ![p].idx = 1]
               ELSE IF Emits(me.batch[me.idx], me.offset)
               THEN [ps EXCEPT ![p].pc = "send",
                               ![p].offset = NextOffset(me.batch[me.idx])]
               ELSE [ps EXCEPT ![p].idx = @ + 1]
  /\ UNCHANGED pollersFrame

\* ch <- update of p, with room in the buffer of its channel
PollerSend(p) ==
  /\ ~panicked
  /\ ps[p].pc = "send"
  /\ Len(ps[p].ch) < Buffer
  /\ ps' = [ps EXCEPT ![p].pc = "range", ![p].idx = @ + 1,
                      ![p].ch = Append(@, ps[p].batch[ps[p].idx])]
  /\ UNCHANGED pollersFrame

\* the consumer of the channel of p receives
PollerReceive(p) ==
  /\ ~panicked
  /\ Len(ps[p].ch) > 0
  /\ ps' = [ps EXCEPT ![p].ch = Tail(@)]
  /\ UNCHANGED pollersFrame

\* the goroutine of poller p
PollerRun(p) ==
  \/ PollerSelect(p)
  \/ PollerRange(p)
  \/ PollerSend(p)

\* the fetches of poller p return
PollerTransport(p) ==
  \/ PollerFetchFail(p)
  \/ \E updates \in PollerBatches : PollerFetchOk(p, updates)

PollersNext ==
  \/ \E p \in Pollers, configOffset \in InitOffsets : PollerStart(p, configOffset)
  \/ \E p \in Pollers : PollerRun(p)
  \/ \E p \in Pollers : PollerTransport(p)
  \/ \E p \in Pollers : PollerReceive(p)
  \/ StopReceivingUpdates

\* the channels have a buffer of one
PollersInit == Init /\ Buffer = 1

PollersSpec == PollersInit /\ [][PollersNext]_vars

\* every poller is scheduled, its fetches return, its consumer receives
PollersFairSpec ==
  /\ PollersSpec
  /\ \A p \in Pollers :
       /\ WF_vars(PollerRun(p))
       /\ WF_vars(PollerTransport(p))
       /\ WF_vars(PollerReceive(p))

\* ------------------------------------------------------------ properties
\* the range loop has run through the whole batch
Exhausted == pc = "range" /\ idx > Len(batch)

\* the identifiers this poller sent since the current batch arrived
InBatch == SubSeq(emitted, base + 1, Len(emitted))

\* the cursor in force when position i of batch b is examined, the batch
\* having arrived at cursor c
CursorAt(b, c, i) == Max({c} \cup {b[j] + 1 : j \in 1..(i - 1)})

\* the identifiers among the first n of b that are at or above the cursor in
\* force at their turn, in the order of b
RECURSIVE AtOrAbove(_, _, _)
AtOrAbove(b, c, n) ==
  IF n = 0 THEN <<>>
  ELSE IF b[n] >= CursorAt(b, c, n)
       THEN Append(AtOrAbove(b, c, n - 1), b[n])
       ELSE AtOrAbove(b, c, n - 1)

StrictlyIncreasing(s) == \A i, j \in 1..Len(s) : i < j => s[i] < s[j]

\* C1: of every batch the poller emits exactly the updates whose identifier
\* is at or above config.Offset at their turn, in the order received, and
\* after the batch the cursor is the largest emitted identifier plus one (it
\* keeps its value when the batch let nothing through).
C1_EmitsFromCursor ==
  /\ pc = "range" =>
       /\ InBatch = AtOrAbove(batch, startCursor, idx - 1)
       /\ offset = CursorAt(batch, startCursor, idx)
  /\ pc = "send" =>
       /\ InBatch = AtOrAbove(batch, startCursor, idx - 1)
       /\ batch[idx] >= CursorAt(batch, startCursor, idx)
       /\ offset = batch[idx] + 1
  /\ Exhausted =>
       offset = IF InBatch = <<>> THEN startCursor ELSE Max(Range(InBatch)) + 1

\* C1 witness: a stale update dropped and a later one emitted across a gap,
\* cursor 1 and batch [0,2] give the stream [2] and the cursor 3
C1_Witness ==
  /\ Exhausted
  /\ startCursor = 1
  /\ batch = <<0, 2>>
  /\ InBatch = <<2>>
  /\ offset = 3

\* C2: the identifiers emitted in one polling session are strictly
\* increasing, and a batch fed again after it was processed (all its
\* identifiers have been seen) emits nothing and leaves the cursor alone.
C2_NoDuplicateEmission ==
  /\ StrictlyIncreasing(emitted)
  /\ StrictlyIncreasing(received \o ch)
  /\ (pc \in {"range", "send"} /\ \A i \in 1..Len(batch) : batch[i] <= maxSeen) =>
       /\ pc = "range"
       /\ InBatch = <<>>
       /\ offset = startCursor

\* C2 witness: a batch whose updates were all emitted before has been fed
\* again and run through
C2_Witness ==
  /\ Exhausted
  /\ Len(batch) >= 2
  /\ Range(batch) \subseteq Range(SubSeq(emitted, 1, base))
  /\ InBatch = <<>>
  /\ offset = startCursor

\* the state part of C3_CursorAdvances
C3_CursorState ==
  /\ offset > maxSeen
  /\ Exhausted => \A i \in 1..Len(batch) : offset > batch[i]
  /\ pc = "fetch" => WireOffset(reqOffset) = offset

\* C3: the cursor never decreases; once a batch is processed the cursor is
\* above every identifier seen in any batch; the fetch in flight carries the
\* cursor of the moment.
C3_CursorAdvances ==
  [](C3_CursorState) /\ [][pc \notin {"idle", "stopped"} => offset' >= offset]_vars

\* C3 witness: a fetch is in flight with a cursor that has advanced past
\* identifiers not all of which were emitted
C3_Witness ==
  /\ pc = "fetch"
  /\ maxSeen >= 2
  /\ Len(emitted) >= 1
  /\ Len(emitted) < maxSeen + 1
  /\ reqOffset = offset

\* a batch that arrived after MaxFails failures has been delivered whole
C4_Delivered ==
  /\ Exhausted
  /\ afterFails
  /\ InBatch = AtOrAbove(batch, startCursor, Len(batch))
  /\ StrictlyIncreasing(emitted)

\* C4: after every failed fetch, the third in a row like the first, the
\* poller sleeps the fixed delay and fetches again unless shut down, and the
\* batch of the fetch that succeeds after MaxFails (three or more) failures
\* is delivered whole: every update at or above the cursor is emitted, none
\* twice.
C4_RetryThenDeliver ==
  /\ [](pc = "sleep" => slept = BackoffSeconds)
  /\ [](afterFails => StrictlyIncreasing(emitted))
  /\ pc = "sleep" ~> (pc = "fetch" \/ shutdownClosed)
  /\ (pc = "range" /\ idx = 1 /\ afterFails) ~> (C4_Delivered \/ panicked)

\* C4 witness: a batch of two that arrived after MaxFails failures has been
\* delivered whole
C4_Witness ==
  /\ C4_Delivered
  /\ Len(batch) = 2
  /\ Len(InBatch) = 2
  /\ ~shutdownClosed

\* the state part of C5_FixedBackoffForever
C5_StateOK ==
  /\ pc = "sleep" => slept = BackoffSeconds /\ failRun >= 1 /\ lastErr # "none"
  /\ pc = "stopped" => shutdownClosed
  /\ chClosed => shutdownClosed

\* C5: a failed fetch is followed by one sleep of the same fixed length
\* whatever the number of failures before it, the sleep is followed by the
\* shutdown check, and failures alone never end the poller or close the
\* channel: that takes the shutdown signal.
C5_FixedBackoffForever ==
  /\ [](C5_StateOK)
  /\ [][pc = "fetch" /\ pc' # "fetch" /\ lastErr' # "none" => pc' = "sleep"]_vars
  /\ [][pc = "sleep" /\ pc' # "sleep" => pc' = "select" /\ ~chClosed']_vars

\* C5 witness: the poller sleeps after MaxFails failures in a row, no
\* shutdown signalled, the channel open
C5_Witness ==
  /\ pc = "sleep"
  /\ failRun = MaxFails
  /\ slept = BackoffSeconds
  /\ ~shutdownClosed
  /\ ~chClosed

\* C6: when the shutdown is signalled during a fetch, that fetch runs to its
\* end (the channel stays open while it is in flight), the poller issues no
\* fetch afterwards, and the channel is closed in the end.
C6_StopDuringFetch ==
  /\ [](pc = "fetch" => ~chClosed)
  /\ [][shutdownClosed /\ pc # "fetch" => pc' # "fetch"]_vars
  /\ (shutdownClosed /\ pc = "fetch") ~> (chClosed \/ panicked)

\* C6 witness: the poller has stopped after completing the one fetch that was
\* in flight at the signal
C6_Witness ==
  /\ pc = "stopped"
  /\ chClosed
  /\ ~lateStart
  /\ afterStop.fetched = 1

\* what holds of a poller started after the shutdown signal
C7_LateStartState ==
  lateStart => /\ shutdownClosed
               /\ ~issued
               /\ emitted = <<>>
               /\ pc \in {"select", "stopped"}
               /\ pc = "stopped" => chClosed

\* C7: the shutdown signal is never cleared; a stopped poller issues no
\* fetch and emits nothing; a poller started after the signal closes its
\* channel without a fetch.
C7_OneShot ==
  /\ [](C7_LateStartState)
  /\ [](pc = "stopped" => shutdownClosed /\ chClosed)
  /\ [][shutdownClosed => shutdownClosed']_vars
  /\ [][pc = "stopped" /\ pc' # "select" =>
          pc' = "stopped" /\ UNCHANGED <<emitted, reqOffset, issued, offset>>]_vars
  /\ [][lateStart /\ pc = "select" /\ pc' # "select" =>
          pc' = "stopped" /\ chClosed']_vars

\* C7 witness: a poller started after the shutdown signal has stopped
C7_Witness ==
  /\ lateStart
  /\ pc = "stopped"
  /\ chClosed
  /\ ~issued

\* C8: the channel never holds more than its capacity, the Buffer of the
\* moment it was made; what the poller emitted is what the consumer received
\* followed by what the channel holds, same order, nothing dropped, nothing
\* twice.
C8_Backpressure ==
  /\ Len(ch) <= chCap
  /\ pc # "idle" => chCap = Buffer
  /\ emitted = received \o ch

\* C8 witness: the poller is blocked in its send on a full channel
C8_Witness ==
  /\ pc = "send"
  /\ chCap >= 1
  /\ Len(ch) = chCap
  /\ received # <<>>

\* the state part of C9_BoundedCancellation
C9_StateOK ==
  /\ afterStop.fetched <= 1
  /\ afterStop.slept <= 1
  /\ afterStop.slept <= afterStop.fetched

\* C9: after the shutdown signal the poller completes at most one fetch and
\* at most one backoff sleep, and the shutdown check that follows stops it.
C9_BoundedCancellation ==
  /\ [](C9_StateOK)
  /\ [][shutdownClosed /\ pc = "select" /\ pc' # "select" =>
          pc' = "stopped" /\ chClosed']_vars

\* C9 witness: stopped after the fetch in flight failed and one sleep
C9_Witness ==
  /\ pc = "stopped"
  /\ afterStop.fetched = 1
  /\ afterStop.slept = 1

\* C10: the first StopReceivingUpdates closes the shutdown channel, the
\* second one panics.
C10_SingleUse ==
  /\ shutdownClosed <=> stopCalls >= 1
  /\ panicked <=> stopCalls >= 2
  /\ stopCalls <= 2

\* C10 witness: the second call has panicked
C10_Witness ==
  /\ panicked
  /\ stopCalls = 2
  /\ shutdownClosed

\* C11: an ok=false answer of the remote API is never retried automatically;
\* only a transport failure puts the poller into its wait-and-retry, so the
\* poller is never waiting to retry on account of an ok=false answer.
C11_ApiErrorNotRetried == pc = "sleep" => lastErr # "notok"

\* ------------------------------------------------- properties of the calls
\* MakeRequest or UploadFiles has returned after decoding an envelope
Answered ==
  /\ call.pc = "returned"
  /\ call.path \in {"MakeRequest", "UploadFiles"}
  /\ call.resp.decodes

\* C12: on MakeRequest and on UploadFiles an envelope with ok = false becomes
\* a typed Error whose Code is the envelope's error_code, whose Message is its
\* description, and whose ResponseParameters are the envelope's parameters,
\* zero when the envelope has none.
C12_TypedError ==
  Answered /\ ~call.resp.apiResp.Ok =>
    /\ call.err.kind = "Error"
    /\ call.err.Code = call.resp.apiResp.ErrorCode
    /\ call.err.Message = call.resp.apiResp.Description
    /\ call.err.ResponseParameters =
         IF call.resp.apiResp.Parameters = << >> THEN ZeroParameters
         ELSE call.resp.apiResp.Parameters[1]

\* the configuration of the call has a file that must be uploaded
CertificateNeedsUpload ==
  /\ call.cfg.kind = "WebhookConfig"
  /\ call.cfg.Certificate # NilData
  /\ call.cfg.Certificate.NeedsUpload

\* the configuration of the call has a file that is sent by reference
CertificateByReference ==
  /\ call.cfg.kind = "WebhookConfig"
  /\ call.cfg.Certificate # NilData
  /\ ~call.cfg.Certificate.NeedsUpload

\* C13: a request that Request sends is a multipart upload (UploadFiles)
\* exactly when the configuration is Fileable and one of its files needs
\* upload; otherwise it is a plain request (MakeRequest) in which every file
\* that needs no upload is the field name -> SendData().
C13_UploadIffNeeded ==
  call.op = "Request" /\ call.path # "none" =>
    /\ call.path = "UploadFiles" <=> CertificateNeedsUpload
    /\ call.path = "MakeRequest" <=> ~CertificateNeedsUpload
    /\ call.path = "UploadFiles" => up.pc # "none"
    /\ call.path = "MakeRequest" =>
         /\ up.pc = "none"
         /\ CertificateByReference =>
              /\ "certificate" \in DOMAIN call.params
              /\ call.params["certificate"] = call.cfg.Certificate.SendData
         /\ ~CertificateByReference => "certificate" \notin DOMAIN call.params

\* C13 witness: a plain request went out with the certificate as a field
C13_Witness ==
  /\ call.op = "Request"
  /\ call.path = "MakeRequest"
  /\ call.http = 1
  /\ CertificateByReference
  /\ call.params["certificate"] = "file_id"

\* the configuration of the call has a structured field json.Marshal refuses
SerializationFails ==
  /\ call.cfg.kind \in {"MessageConfig", "LocationConfig", "VenueConfig"}
  /\ call.cfg.BaseChat.ReplyMarkup = "unserializable"

C15_BodyClosedOnReturn ==
  /\ call.pc = "returned" /\ call.http >= 1 /\ call.err.kind # "Client.Do" =>
       call.body = "closed"
  /\ call.body = "open" => call.pc = "decode"

\* C15 witness: UploadFiles returned the error of a body that did not decode
C15_Witness ==
  /\ call.pc = "returned"
  /\ call.path = "UploadFiles"
  /\ call.err.kind = "decode"
  /\ call.body = "closed"

\* the position of the file called name in the list of the call, 0 if none
FilePosition(name) ==
  IF \E j \in 1..Len(call.files) : call.files[j].Name = name
  THEN CHOOSE j \in 1..Len(call.files) : call.files[j].Name = name
  ELSE 0

\* C16: in a multipart upload every parameter field is written before any
\* attachment, the attachments are written in the order of the list, and a
\* reader from UploadData that can be closed is closed after the copy,
\* whether the copy succeeded or failed.
C16_FieldsFilesReadersClosed ==
  /\ \A a, b \in 1..Len(up.out) :
       a < b /\ up.out[a].part = "file" => up.out[b].name \notin DOMAIN call.params
  /\ \A a, b \in 1..Len(up.out) :
       a < b /\ up.out[a].part = "file" /\ up.out[b].part = "file" =>
         FilePosition(up.out[a].name) < FilePosition(up.out[b].name)
  /\ up.pc = "done" =>
       \A j \in 1..Len(call.files) :
         call.files[j].Data.Closer =>
           up.readers[j] \notin {"copied", "copy failed"}

\* the configuration of the call as WriteToHTTPResponse sees it
CannotWrite == CertificateNeedsUpload

\* C19: WriteToHTTPResponse refuses a Fileable configuration with a file that
\* needs upload: it returns an error and writes neither header nor body;
\* otherwise it writes the parameters of the configuration and the field
\* "method".
C19_NoUploadInResponse ==
  call.op = "WriteToHTTPResponse" =>
    /\ call.pc = "returned"
    /\ call.http = 0
    /\ CannotWrite =>
         /\ call.err = LibErr("unable to use http response to upload files")
         /\ ~call.header
         /\ call.wrote = << >>
    /\ ~CannotWrite /\ ~SerializationFails =>
         /\ call.header
         /\ call.err.kind \in {"nil", "Write"}
         /\ call.err.kind = "nil" =>
              /\ Len(call.wrote) = 1
              /\ DOMAIN call.wrote[1] = DOMAIN call.params \cup {"method"}
              /\ call.wrote[1]["method"] = method(call.cfg)
              /\ \A k \in DOMAIN call.params : call.wrote[1][k] = call.params[k]
    /\ SerializationFails =>
         /\ call.err = LibErr("json.Marshal")
         /\ ~call.header
         /\ call.wrote = << >>

\* C19 witness: WriteToHTTPResponse has refused a certificate to upload
C19_Witness ==
  /\ call.op = "WriteToHTTPResponse"
  /\ CannotWrite
  /\ call.err.kind = "unable to use http response to upload files"

\* no optional field of the BaseChat of the call is set
BaseChatBare ==
  /\ call.cfg.BaseChat.ReplyToMessageID = 0
  /\ call.cfg.BaseChat.ReplyMarkup = "nil"
  /\ ~call.cfg.BaseChat.DisableNotification
  /\ ~call.cfg.BaseChat.AllowSendingWithoutReply

\* C20: params() has every required field whatever its value, and only the
\* required fields when no optional field is set: latitude and longitude for
\* a LocationConfig, latitude, longitude, title and address for a VenueConfig.
C20_RequiredAlways ==
  /\ call.cfg.kind = "LocationConfig" =>
       /\ {"latitude", "longitude"} \subseteq DOMAIN call.params
       /\ BaseChatBare /\ call.cfg.LivePeriod = 0 =>
            DOMAIN call.params \subseteq {"chat_id", "latitude", "longitude"}
  /\ call.cfg.kind = "VenueConfig" =>
       /\ {"latitude", "longitude", "title", "address"} \subseteq DOMAIN call.params
       /\ BaseChatBare =>
            DOMAIN call.params \subseteq
              {"chat_id", "latitude", "longitude", "title", "address"}

\* ------------------------------------------------ properties of the webhook
\* C17: for a request that is not a POST HandleUpdate returns an error and no
\* Update, without reading the body; for a POST it returns the decoded Update,
\* or the error of the decoder as it is.
C17_HandleUpdate ==
  \A k \in 1..Len(wh.calls) :
    LET r == wh.calls[k].req
        h == wh.calls[k].h
    IN  /\ r.Method # "POST" =>
             /\ h.err = "wrong HTTP method required POST"
             /\ h.update = << >>
             /\ ~h.read
        /\ r.Method = "POST" /\ r.Body.decodes =>
             /\ h.err = "nil"
             /\ h.update = <<r.Body.id>>
        /\ r.Method = "POST" /\ ~r.Body.decodes =>
             /\ h.err = r.Body.err
             /\ h.update = << >>

\* C17 witness: a GET with a body that would not decode was refused for its
\* method
C17_Witness ==
  /\ Len(wh.calls) = 2
  /\ wh.calls[2].req.Method = "GET"
  /\ ~wh.calls[2].req.Body.decodes
  /\ wh.calls[2].h.err = "wrong HTTP method required POST"
  /\ wh.calls[1].h.err = "invalid character"

\* the updates the inbound calls have put on the channel
RECURSIVE Puts(_)
Puts(k) == IF k = 0 THEN 0 ELSE wh.calls[k].put + Puts(k - 1)

\* the state part of C18
C18_StateOK ==
  /\ \A k \in 1..Len(wh.calls) :
       LET c == wh.calls[k]
       IN  /\ c.put <= 1
           /\ c.h.err # "nil" =>
                /\ c.put = 0
                /\ c.pc = "done"
                /\ c.status = 400
                /\ c.body = [error |-> c.h.err]
           /\ c.h.err = "nil" /\ c.pc = "done" => c.put = 1
  /\ Len(wh.ch) + Len(wh.received) = Puts(Len(wh.calls))

\* C18: an inbound webhook call puts at most one Update on the channel:
\* exactly one when HandleUpdate succeeds, none when it fails, the handler
\* then answering 400 with the JSON of {"error": msg}; nothing is delivered
\* twice.
C18_OneUpdatePerCall ==
  /\ [](C18_StateOK)
  /\ \A k \in 1..MaxCalls :
       (k <= Len(wh.calls) /\ wh.calls[k].h.err = "nil")
         ~> (k <= Len(wh.calls) /\ wh.calls[k].put = 1)

\* --------------------------------------- failures, closing and shutdown
\* C24: a failed fetch changes nothing observable: the step that fails and
\* the sleep after it leave the cursor and the emitted updates as they were,
\* the poller puts nothing on the channel before the next fetch, and that
\* fetch is issued with the cursor of the failed one.
C24_FailedFetchFrame ==
  /\ [](pc \in {"sleep", "select"} /\ failRun >= 1 =>
          WireOffset(reqOffset) = offset)
  /\ [][pc = "fetch" /\ pc' = "sleep" =>
          UNCHANGED <<offset, reqOffset, emitted, ch, chClosed, maxSeen>>]_vars
  /\ [][pc = "sleep" =>
          UNCHANGED <<offset, reqOffset, emitted, chClosed, maxSeen>>]_vars
  /\ [][pc = "select" /\ failRun >= 1 /\ pc' = "fetch" =>
          UNCHANGED <<offset, reqOffset, emitted, ch>>]_vars

\* C24 witness: the fetch after a failed one is in flight, the cursor having
\* advanced before the failure
C24_Witness ==
  /\ pc = "fetch"
  /\ failRun >= 1
  /\ offset >= 2
  /\ emitted # <<>>

\* C25: the poller sends only on an open channel; the channel is closed by
\* one step only, the shutdown case of the select at the top of an
\* iteration, with no batch in delivery, and a closed channel is not closed
\* again.
C25_CloseOnceAtSelect ==
  /\ [](pc \in {"select", "fetch", "sleep", "range", "send"} => ~chClosed)
  /\ [][emitted' # emitted /\ emitted' # <<>> => ~chClosed /\ ~chClosed']_vars
  /\ [][~chClosed /\ chClosed' =>
          /\ pc = "select"
          /\ shutdownClosed
          /\ batch = <<>>
          /\ pc' = "stopped"]_vars
  /\ [][chClosed /\ pc' # "select" => chClosed' /\ pc' = "stopped"]_vars

\* C25 witness: the channel was closed after a batch was delivered on it
C25_Witness ==
  /\ chClosed
  /\ pc = "stopped"
  /\ Len(emitted) >= 2
  /\ afterStop.fetched = 0

\* C26: the range loop over a fetched batch is left only when every update
\* of the batch that passes the cursor filter has been put on the channel,
\* shutdown signalled or not, and the channel is open until then.
C26_BatchBeforeClose ==
  /\ [](batch # <<>> => ~chClosed /\ pc \in {"range", "send"})
  /\ [][(batch # <<>> /\ pc' \notin {"range", "send"}) =>
          /\ Exhausted
          /\ InBatch = AtOrAbove(batch, startCursor, Len(batch))
          /\ emitted' = emitted
          /\ ~chClosed']_vars

\* C26 witness: a batch of two whose fetch returned after the shutdown was
\* signalled has been delivered whole, the channel still open
C26_Witness ==
  /\ Exhausted
  /\ shutdownClosed
  /\ afterStop.fetched = 1
  /\ Len(batch) = 2
  /\ Len(InBatch) = 2
  /\ ~chClosed

\* C27: once the shutdown is signalled a running poller closes its channel
\* and terminates, every fetch returning and the consumer receiving; a
\* pending send is left only by the send itself.
C27_StopTerminates ==
  /\ (shutdownClosed /\ pc \notin {"idle", "stopped"})
       ~> ((pc = "stopped" /\ chClosed) \/ panicked)
  /\ [][pc = "send" /\ pc' # "send" => emitted' # emitted /\ pc' = "range"]_vars

\* C27 witness: the shutdown is signalled while a send is pending on a full
\* channel
C27_Witness ==
  /\ shutdownClosed
  /\ pc = "send"
  /\ chCap > 0
  /\ Len(ch) = chCap

\* the poller and the transport scheduled, the consumer free to stop
\* receiving
StalledConsumerSpec ==
  Spec /\ WF_vars(Poller) /\ WF_vars(Transport)

\* with a consumer that stopped receiving, a poller blocked in a send stays
\* there: the termination of C27 needs the consumer
C27_TerminatesWithoutConsumer ==
  (shutdownClosed /\ pc \notin {"idle", "stopped"})
    ~> ((pc = "stopped" /\ chClosed) \/ panicked)

\* ------------------------------------------------ errors of the calls
\* the call is over for the user of the library
Returned ==
  \/ call.pc = "finished"
  \/ call.pc = "returned"
       /\ call.op \in {"Request", "UploadFiles", "WriteToHTTPResponse"}

\* C22: one invocation of a request/response call issues at most one HTTP
\* request: the step that issues it leaves the requesting position for good;
\* an error of the HTTP client is what the call returns, with nothing added
\* and no second attempt.
C22_OneRequestNoRetry ==
  /\ [](call.http <= 1)
  /\ [][call.http' # call.http =>
          /\ call.http' = call.http + 1
          /\ call.pc = "do"
          /\ call'.pc \in {"returned", "decode"}]_vars
  /\ [][call.pc \in {"decode", "returned", "finished"} =>
          call'.pc \in {"decode", "returned", "finished"}]_vars
  /\ [](call.path \in {"MakeRequest", "UploadFiles"} /\ call.err.kind = "Client.Do" =>
          /\ call.err = LibErr("Client.Do")
          /\ call.http = 1
          /\ call.pc \in {"returned", "finished"})

\* C22 witness: GetUpdates called directly has returned the error of the
\* HTTP client after its one request
C22_Witness ==
  /\ call.op = "GetUpdates"
  /\ call.pc = "finished"
  /\ call.http = 1
  /\ call.err = LibErr("Client.Do")

\* C21 as stated: every error a library operation returns is wrapped with
\* context naming the operation.
C21_EveryErrorWrapped ==
  (Returned /\ call.err.kind # "nil" /\
   call.op \in {"Request", "Send", "GetUpdates", "sendMessage", "getUpdates"})
    => call.err.wrap # << >>

\* C21: the errors of Client.doRequest are wrapped with "can't do a request",
\* and Client.SendMessage wraps them once more with "can't send a message";
\* Client.Updates returns the error of doRequest as it is and its own
\* json.Unmarshal error bare; the functions of BotAPI (MakeRequest, Request,
\* Send, GetUpdates) return their errors without any wrapping.
C21_WrappedByClientOnly ==
  /\ (call.path = "doRequest" /\ call.pc = "returned" /\ call.err.kind # "nil") =>
       call.err.wrap = <<"can't do a request">>
  /\ (Returned /\ call.err.kind # "nil") =>
       call.err.wrap =
         CASE call.op = "sendMessage" ->
                <<"can't send a message", "can't do a request">>
           [] call.op = "getUpdates" ->
                IF call.err.kind = "json.Unmarshal" THEN << >>
                ELSE <<"can't do a request">>
           [] OTHER -> << >>

\* C21 witness: Client.SendMessage has returned the error of the HTTP client
\* under both contexts
C21_Witness ==
  /\ call.op = "sendMessage"
  /\ call.pc = "finished"
  /\ call.err.kind = "Client.Do"
  /\ call.err.wrap = <<"can't send a message", "can't do a request">>

\* ------------------------------------------- the one-shot webhook listener
\* the state part of C29
C29_StateOK ==
  (wh.kind = "ListenForWebhookRespReqFormat" /\ wh.returned) =>
    /\ wh.closed
    /\ wh.calls[1].pc = "done"
    /\ Len(wh.ch) + Len(wh.received) =
         IF wh.calls[1].h.err = "nil" THEN 1 ELSE 0

\* C29: ListenForWebhookRespReqFormat always returns, whatever bot.Buffer
\* is; the channel it returns is closed, and holds exactly one Update when
\* the request was decoded and none otherwise.
C29_ReturnsClosedChannel ==
  /\ [](C29_StateOK)
  /\ (wh.kind = "ListenForWebhookRespReqFormat") ~> wh.returned

\* -------------------------------------- the end of the upload goroutine
\* C30: the goroutine of every UploadFiles call terminates, its deferred
\* w.Close() closing the writing end of the pipe, whatever the way the call
\* goes: success, an error while writing a field or an attachment, http.NewRequest
\* failing, the HTTP client returning an error.
C30_UploaderTerminates == (up.pc # "none") ~> (up.pc = "done")

\* ------------------------------------------------------------- Clear
\* an update is pending on the channel: in its buffer, or in a send that
\* waits for a receiver
Pending == Len(ch) > 0 \/ (pc = "send" /\ chCap = 0)

\* C23: when Clear returns no update is pending on the channel, and Clear
\* once called does return, with or without the poller emitting into the
\* channel.
C23_ClearDiscardsAll ==
  /\ [][(clr.pc # "returned" /\ clr'.pc = "returned") => ~Pending']_vars
  /\ (clr.pc \notin {"none", "returned"}) ~> (clr.pc = "returned")

\* ------------------------------------------------ pollers of one BotAPI
\* C28: each poller fetches with its own cursor; a step of one poller
\* changes nothing of another, and a cursor is changed only by the range
\* loop of its poller; StopReceivingUpdates changes no poller, and after one
\* call of it every started poller closes its channel and stops.
C28_OwnCursorSharedStop ==
  /\ [](\A p \in Pollers :
          /\ ps[p].pc = "fetch" => WireOffset(ps[p].req) = ps[p].offset
          /\ ps[p].closed <=> ps[p].pc = "stopped"
          /\ ps[p].pc = "stopped" => shutdownClosed)
  /\ [][\A p \in Pollers :
          ps'[p] # ps[p] => \A q \in Pollers \ {p} : ps'[q] = ps[q]]_vars
  /\ [][\A p \in Pollers :
          ps'[p].offset # ps[p].offset =>
            \/ ps[p].pc = "idle"
            \/ ps[p].pc = "range" /\ ps'[p].pc = "send"]_vars
  /\ [][(shutdownClosed' # shutdownClosed \/ stopCalls' # stopCalls) =>
          ps' = ps]_vars
  /\ shutdownClosed ~>
       (panicked \/ \A p \in Pollers : ps[p].pc \in {"idle", "stopped"})

\* C28 witness: after one call of StopReceivingUpdates both pollers have
\* stopped, their cursors apart
C28_Witness ==
  /\ stopCalls = 1
  /\ ~panicked
  /\ ps["first"].pc = "stopped"
  /\ ps["second"].pc = "stopped"
  /\ ps["first"].offset = 2
  /\ ps["second"].offset = 0
  /\ ps["first"].closed /\ ps["second"].closed

====
